---------------------------- MODULE Spec2Model ----------------------------
(***************************************************************************)
(* A model of aws/__init__.py: configuration lookup, the cached EC2        *)
(* client, launch-specification building, on-demand and spot launches, the *)
(* spot fulfilment poll, image creation and the SSH tunnel.                *)
(*                                                                         *)
(* Strings whose content matters (the boot script, UserData) are sequences *)
(* of byte values.  Python's None, '' and the empty dict are the empty     *)
(* string, the empty sequence and the empty set of pairs: the code only    *)
(* ever tests them for truthiness.                                         *)
(***************************************************************************)
EXTENDS Integers, Sequences, FiniteSets, TLC

VARIABLES
    \* config.json and credentials.json, as read by config()
    config_json, credentials_json,
    \* the module global _ec2 and the history of ec2()
    _ec2, constructed, ec2Returned,
    \* the session of operations on the cloud API
    apiCount, opsDone, last, haveInstance, imageRequests,
    \* create_instance / request_spot with one set of keyword arguments
    kw, created, spotRequest, pc, request_ids, desc, checks, sleeps, clock,
    lastCheckAt, notFulfilled, errAt, result,
    \* tunnel
    alive, procs, p, spawned, tpc, attempts, tsleeps, tcalls, tresult

fileVars == <<config_json, credentials_json>>
ec2Vars == <<_ec2, constructed, ec2Returned>>
sessionVars == <<apiCount, opsDone, last, haveInstance, imageRequests>>
launchVars == <<kw, created, spotRequest>>
pollVars == <<pc, request_ids, desc, checks, sleeps, clock, lastCheckAt,
              notFulfilled, errAt, result>>
tunnelVars == <<alive, procs, p, spawned, tpc, attempts, tsleeps, tcalls, tresult>>
vars == <<fileVars, ec2Vars, sessionVars, launchVars, pollVars, tunnelVars>>

----------------------------------------------------------------------------
(* Bounds of the model *)

\* largest number of keys missing from the two files together
MaxMissing == 1
\* operations in one session
MaxOps == 3
\* longest boot script, in bytes
MaxScriptLen == 2
\* spot requests the provider may hand back for one submission
MaxRequests == 2
\* status checks before the model stops following the poll loop
MaxPolls == 4
\* calls of tunnel() in one run
MaxCalls == 3

----------------------------------------------------------------------------
(* config.json, credentials.json and config(key), lines 39-41 *)

SettingsKeys == {"REGION", "IMAGE", "KEYPAIR", "SSH_GROUP", "MUTUAL_ACCESS_GROUP",
                 "INSTANCE", "AVAILABILITY_ZONE"}
SecretKeys == {"AWS_ID", "AWS_SECRET"}
RequiredKeys == SettingsKeys \cup SecretKeys

ConfigValue(k) ==
    CASE k = "REGION" -> "us-east-1"
      [] k = "IMAGE" -> "ami-default"
      [] k = "KEYPAIR" -> "key"
      [] k = "SSH_GROUP" -> "ssh"
      [] k = "MUTUAL_ACCESS_GROUP" -> "mutual"
      [] k = "INSTANCE" -> "m4.large"
      [] k = "AVAILABILITY_ZONE" -> "us-east-1a"
      [] k = "AWS_ID" -> "id"
      [] k = "AWS_SECRET" -> "secret"

\* {**a, **b}: the keys of both, b's value where both have the key
Merge(a, b) == [k \in (DOMAIN a) \cup (DOMAIN b) |->
                    IF k \in DOMAIN b THEN b[k] ELSE a[k]]

Merged == Merge(config_json, credentials_json)

\* The files a process may find: every key has its value, up to MaxMissing
\* keys are absent.
FilesInit ==
    \E missing \in SUBSET RequiredKeys :
        /\ Cardinality(missing) <= MaxMissing
        /\ config_json = [k \in SettingsKeys \ missing |-> ConfigValue(k)]
        /\ credentials_json = [k \in SecretKeys \ missing |-> ConfigValue(k)]

FilesComplete ==
    /\ config_json = [k \in SettingsKeys |-> ConfigValue(k)]
    /\ credentials_json = [k \in SecretKeys |-> ConfigValue(k)]

----------------------------------------------------------------------------
(* base64.b64encode over byte sequences, line 74 *)

B64Char(i) == IF i < 26 THEN 65 + i
              ELSE IF i < 52 THEN 97 + (i - 26)
              ELSE IF i < 62 THEN 48 + (i - 52)
              ELSE IF i = 62 THEN 43 ELSE 47

B64Pad == 61

RECURSIVE b64encode(_)
b64encode(bs) ==
    IF bs = <<>> THEN <<>>
    ELSE LET n == Len(bs)
             b1 == bs[1]
             b2 == IF n >= 2 THEN bs[2] ELSE 0
             b3 == IF n >= 3 THEN bs[3] ELSE 0
             s1 == b1 \div 4
             s2 == (b1 % 4) * 16 + (b2 \div 16)
             s3 == (b2 % 16) * 4 + (b3 \div 64)
             s4 == b3 % 64
         IN  IF n = 1 THEN <<B64Char(s1), B64Char(s2), B64Pad, B64Pad>>
             ELSE IF n = 2 THEN <<B64Char(s1), B64Char(s2), B64Char(s3), B64Pad>>
             ELSE <<B64Char(s1), B64Char(s2), B64Char(s3), B64Char(s4)>>
                      \o b64encode(SubSeq(bs, 4, n))

----------------------------------------------------------------------------
(* instance_spec, lines 53-66 *)

\* '#!/bin/bash\n'
Shebang == <<35, 33, 47, 98, 105, 110, 47, 98, 97, 115, 104, 10>>

\* images(): the images the account owns, name -> id
OwnedImages == [python_ec2 |-> "ami-python"]

\* the bytes boot scripts are made of: 'c' and '\n'
ScriptBytes == {99, 10}

RECURSIVE SeqsUpTo(_, _)
SeqsUpTo(S, n) == IF n = 0 THEN {<<>>}
                  ELSE LET shorter == SeqsUpTo(S, n - 1)
                       IN  shorter \cup {Append(s, b) : s \in shorter, b \in S}

\* The keyword arguments of create_instance / request_spot: image, script
\* and whatever else the caller passes (**kwargs), as a set of <<key, value>>.
KwArgs == [image : {"", "python_ec2", "no_such_image"},
           script : SeqsUpTo(ScriptBytes, MaxScriptLen),
           kwargs : {{}, {<<"InstanceType", "p2.xlarge">>}}]

\* the config keys instance_spec reads, in the order it reads them
SpecKeys == <<"IMAGE", "KEYPAIR", "SSH_GROUP", "MUTUAL_ACCESS_GROUP", "INSTANCE",
              "AVAILABILITY_ZONE">>

\* what instance_spec returns; **kwargs is accepted and not read
instance_spec(k) ==
    [ImageId |-> IF k.image # "" THEN OwnedImages[k.image] ELSE Merged["IMAGE"],
     KeyName |-> Merged["KEYPAIR"],
     SecurityGroups |-> <<Merged["SSH_GROUP"], Merged["MUTUAL_ACCESS_GROUP"]>>,
     InstanceType |-> Merged["INSTANCE"],
     Placement |-> [AvailabilityZone |-> Merged["AVAILABILITY_ZONE"]],
     UserData |-> IF k.script # <<>> THEN Shebang \o k.script ELSE Shebang]

----------------------------------------------------------------------------
(* The run of one operation: the config lookups, ec2() calls and cloud API  *)
(* calls it makes, in the order the code makes them, until one raises.      *)

NoClient == 0

\* the state a run threads through: the global _ec2 and what happened so far
RunState == [ec2 |-> _ec2, constructed |-> constructed, returned |-> ec2Returned,
             calls |-> 0, keysRead |-> {}, err |-> "", raisedBy |-> "",
             failedKey |-> ""]

\* config(key), lines 39-41: the merged mapping's value, KeyError without one
config(key, st) ==
    IF st.err # "" THEN st
    ELSE IF key \in DOMAIN Merged
         THEN [st EXCEPT !.keysRead = @ \cup {key}]
         ELSE [st EXCEPT !.err = "KeyError", !.raisedBy = "config", !.failedKey = key]

\* boto3.resource(...): a new client object each time it is called
NewClient(st) == [st EXCEPT !.ec2 = st.constructed + 1, !.constructed = @ + 1]

ec2_uncached(st) ==
    IF st.err # "" THEN st
    ELSE LET s3 == config("AWS_SECRET", config("AWS_ID", config("REGION", st)))
             s4 == IF s3.err # "" THEN s3 ELSE NewClient(s3)
         IN  IF s4.err # "" THEN s4 ELSE [s4 EXCEPT !.returned = @ \cup {s4.ec2}]

\* ec2(), lines 43-51
ec2(st) ==
    IF st.err # "" THEN st
    ELSE LET s3 == IF st.ec2 = NoClient
                   THEN config("AWS_SECRET", config("AWS_ID", config("REGION", st)))
                   ELSE st
             s4 == IF s3.err = "" /\ st.ec2 = NoClient THEN NewClient(s3) ELSE s3
         IN  IF s4.err # "" THEN s4 ELSE [s4 EXCEPT !.returned = @ \cup {s4.ec2}]

\* one call of the cloud API through the client
api(st) == IF st.err # "" THEN st ELSE [st EXCEPT !.calls = @ + 1]

\* a provider error out of an API call
client_error(st) ==
    IF st.err # "" THEN st ELSE [st EXCEPT !.err = "ClientError", !.raisedBy = "provider"]

\* images(), lines 111-112
images(st) == api(ec2(st))

\* images()[image].id, line 62
image_id(image, st) ==
    LET s1 == images(st)
    IN  IF s1.err = "" /\ image \notin DOMAIN OwnedImages
        THEN [s1 EXCEPT !.err = "KeyError", !.raisedBy = "images"]
        ELSE s1

RECURSIVE config_all(_, _)
config_all(keys, st) ==
    IF keys = <<>> THEN st ELSE config_all(Tail(keys), config(Head(keys), st))

instance_spec_run_image_first(image, st) ==
    config_all(SpecKeys, IF image # "" THEN image_id(image, st) ELSE st)

\* instance_spec, lines 53-66: the defaults are read first, the image second
instance_spec_run(image, st) ==
    LET s1 == config_all(SpecKeys, st)
    IN  IF image # "" THEN image_id(image, s1) ELSE s1

\* create_instance, lines 68-70
create_instance_run(image, st) == api(ec2(instance_spec_run(image, st)))

RECURSIVE describe_run(_, _)
describe_run(n, st) == IF n = 0 THEN st ELSE describe_run(n - 1, api(ec2(st)))

\* request_spot, lines 72-94, with a provider that answers nChecks status
\* checks, the last one with all fulfilled (ok) or with a ClientError
request_spot_run(image, nChecks, ok, st) ==
    LET s1 == api(ec2(instance_spec_run(image, st)))
        s2 == describe_run(nChecks, s1)
    IN  IF ok THEN ec2(s2) ELSE client_error(s2)

\* set_name, lines 99-100; instances, lines 105-109
set_name_run(st) == api(ec2(st))
instances_run(st) == api(ec2(st))

\* command, lines 132-134: ssh_options() reads KEYPAIR, then host() reads the
\* instance's public address through the resource
command_run(st) == api(config("KEYPAIR", st))

\* create_image, lines 96-97: the request it sends
create_image_request(name) == [Name |-> name, NoReboot |-> FALSE]

\* create_image: one API call on the instance handle, no config, no ec2()
create_image_run(st) == api(st)

----------------------------------------------------------------------------
(* The session: operations called one after another in one process *)

Finish(op, st) ==
    /\ _ec2' = st.ec2
    /\ constructed' = st.constructed
    /\ ec2Returned' = st.returned
    /\ apiCount' = apiCount + st.calls
    /\ opsDone' = opsDone + 1
    /\ last' = [op |-> op, err |-> st.err, raisedBy |-> st.raisedBy,
                failedKey |-> st.failedKey, calls |-> st.calls,
                keysRead |-> st.keysRead]

ImageArgs == {"", "python_ec2", "no_such_image"}

SetName ==
    /\ opsDone < MaxOps /\ haveInstance
    /\ Finish("set_name", set_name_run(RunState))
    /\ UNCHANGED <<fileVars, haveInstance, imageRequests, launchVars, pollVars,
                   tunnelVars>>

Instances ==
    /\ opsDone < MaxOps
    /\ LET st == instances_run(RunState)
       IN  /\ Finish("instances", st)
           /\ haveInstance' = (haveInstance \/ st.err = "")
    /\ UNCHANGED <<fileVars, imageRequests, launchVars, pollVars, tunnelVars>>

Images ==
    /\ opsDone < MaxOps
    /\ Finish("images", images(RunState))
    /\ UNCHANGED <<fileVars, haveInstance, imageRequests, launchVars, pollVars,
                   tunnelVars>>

CreateInstanceOp ==
    /\ opsDone < MaxOps
    /\ \E image \in ImageArgs :
        LET st == create_instance_run(image, RunState)
        IN  /\ Finish("create_instance", st)
            /\ haveInstance' = (haveInstance \/ st.err = "")
    /\ UNCHANGED <<fileVars, imageRequests, launchVars, pollVars, tunnelVars>>

RequestSpotOp ==
    /\ opsDone < MaxOps
    /\ \E image \in ImageArgs, n \in 1..MaxPolls, ok \in BOOLEAN :
        LET st == request_spot_run(image, n, ok, RunState)
        IN  /\ Finish("request_spot", st)
            /\ haveInstance' = (haveInstance \/ st.err = "")
    /\ UNCHANGED <<fileVars, imageRequests, launchVars, pollVars, tunnelVars>>

Command ==
    /\ opsDone < MaxOps /\ haveInstance
    /\ Finish("command", command_run(RunState))
    /\ UNCHANGED <<fileVars, haveInstance, imageRequests, launchVars, pollVars,
                   tunnelVars>>

CreateImage ==
    /\ opsDone < MaxOps /\ haveInstance
    /\ Finish("create_image", create_image_run(RunState))
    /\ imageRequests' = Append(imageRequests, create_image_request("python-ec2"))
    /\ UNCHANGED <<fileVars, haveInstance, launchVars, pollVars, tunnelVars>>

----------------------------------------------------------------------------
(* create_instance and request_spot, lines 68-94, with the keyword         *)
(* arguments kw                                                             *)

\* what a run leaves behind in the process and at the provider
Touch(st) ==
    /\ _ec2' = st.ec2
    /\ constructed' = st.constructed
    /\ ec2Returned' = st.returned
    /\ apiCount' = apiCount + st.calls

\* the arguments of create_instances, line 70
create_instance_args(k) == [MinCount |-> 1, MaxCount |-> 1, spec |-> instance_spec(k)]

\* create_instance(name, **kwargs)
CreateInstance ==
    /\ created = <<>>
    /\ LET st == create_instance_run(kw.image, RunState)
       IN  /\ Touch(st)
           /\ created' = <<[err |-> st.err,
                            args |-> IF st.err = "" THEN <<create_instance_args(kw)>>
                                     ELSE <<>>]>>
    /\ UNCHANGED <<fileVars, opsDone, last, haveInstance, imageRequests, kw,
                   spotRequest, pollVars, tunnelVars>>

request_spot_spec_raw(k) == instance_spec(k)

\* lines 73-74: the specification with its UserData base64-encoded
request_spot_spec(k) ==
    [instance_spec(k) EXCEPT !.UserData = b64encode(instance_spec(k).UserData)]

\* the bid, as str(bid)
SpotPrice == "0.15"

\* the arguments of request_spot_instances, lines 75-78
request_spot_args(k) ==
    [InstanceCount |-> 1, SpotPrice |-> SpotPrice,
     LaunchSpecification |-> request_spot_spec(k)]

\* request_spot up to line 80: build, encode, submit, keep the request ids
SpotSubmit ==
    /\ pc = "idle"
    /\ LET st == api(ec2(instance_spec_run(kw.image, RunState)))
       IN  /\ Touch(st)
           /\ spotRequest' = <<[err |-> st.err,
                                args |-> IF st.err = "" THEN <<request_spot_args(kw)>>
                                         ELSE <<>>]>>
           /\ IF st.err # ""
              THEN /\ pc' = "raised"
                   /\ request_ids' = <<>>
              ELSE /\ pc' = "check"
                   /\ \E n \in 1..MaxRequests : request_ids' = [i \in 1..n |-> i]
    /\ UNCHANGED <<fileVars, opsDone, last, haveInstance, imageRequests, kw, created,
                   desc, checks, sleeps, clock, lastCheckAt, notFulfilled, errAt,
                   result, tunnelVars>>

StatusCodes == {"pending-evaluation", "pending-fulfillment", "fulfilled"}

\* one entry of desc['SpotInstanceRequests']
Description(id, code) ==
    [SpotInstanceRequestId |-> id, Code |-> code,
     InstanceId |-> IF code = "fulfilled" THEN <<"i", id>> ELSE <<>>]

\* what describe_spot_instance_requests may answer for the ids
Responses(ids) ==
    {[i \in 1..Len(ids) |-> Description(ids[i], codes[i])] :
        codes \in [1..Len(ids) -> StatusCodes]}

any_fulfilled(d) == \E i \in 1..Len(d) : d[i].Code = "fulfilled"

\* line 86
all_fulfilled(d) == \A i \in 1..Len(d) : d[i].Code = "fulfilled"

after_error_retry == "sleep"

\* lines 88-90: the ClientError is logged and raised again
after_error == "raised"

\* lines 82-90 and 93-94: one status check and what the loop does with it
SpotCheck ==
    /\ pc = "check"
    /\ checks < MaxPolls
    /\ LET st == api(ec2(RunState))
       IN  /\ Touch(st)
           /\ checks' = checks + 1
           /\ lastCheckAt' = clock
           /\ \/ /\ errAt' = checks + 1
                 /\ pc' = after_error
                 /\ UNCHANGED <<desc, notFulfilled, result>>
              \/ \E d \in Responses(request_ids) :
                    /\ desc' = d
                    /\ IF all_fulfilled(d)
                       THEN /\ pc' = "returned"
                            /\ result' = <<[id |-> d[1].InstanceId]>>
                            /\ UNCHANGED notFulfilled
                       ELSE /\ pc' = "sleep"
                            /\ notFulfilled' = notFulfilled + 1
                            /\ UNCHANGED result
                    /\ UNCHANGED errAt
    /\ UNCHANGED <<fileVars, opsDone, last, haveInstance, imageRequests, launchVars,
                   request_ids, sleeps, clock, tunnelVars>>

PollInterval == 5

SpotSleepShort ==
    /\ pc = "sleep"
    /\ sleeps' = sleeps + 1
    /\ clock' = clock + 1
    /\ pc' = "check"
    /\ UNCHANGED <<fileVars, ec2Vars, sessionVars, launchVars, request_ids, desc,
                   checks, lastCheckAt, notFulfilled, errAt, result, tunnelVars>>

\* line 91: time.sleep(5)
SpotSleep ==
    /\ pc = "sleep"
    /\ sleeps' = sleeps + 1
    /\ clock' = clock + PollInterval
    /\ pc' = "check"
    /\ UNCHANGED <<fileVars, ec2Vars, sessionVars, launchVars, request_ids, desc,
                   checks, lastCheckAt, notFulfilled, errAt, result, tunnelVars>>

----------------------------------------------------------------------------
(* tunnel, lines 180-203 *)

\* tunnel_alive(kernel['control_port']), lines 180-181: whether something
\* answers on the control port right now
tunnel_alive == alive

\* range(20), line 196
TunnelAttempts == 20

TunnelCallAlwaysSpawn ==
    /\ tpc = "idle"
    /\ tcalls < MaxCalls
    /\ tcalls' = tcalls + 1
    /\ attempts' = 0
    /\ tsleeps' = 0
    /\ \E fetched \in BOOLEAN :
          IF ~fetched
          THEN /\ tresult' = "CalledProcessError"
               /\ UNCHANGED <<procs, p, spawned, tpc>>
          ELSE /\ p' = spawned + 1
               /\ procs' = procs \cup {spawned + 1}
               /\ spawned' = spawned + 1
               /\ tpc' = "loop"
               /\ tresult' = "none"
    /\ UNCHANGED <<fileVars, ec2Vars, sessionVars, launchVars, pollVars, alive>>

\* lines 184-195: fetch the kernel descriptor (scp, which may fail), return
\* if the control port answers already, else start the ssh process
TunnelCall ==
    /\ tpc = "idle"
    /\ tcalls < MaxCalls
    /\ tcalls' = tcalls + 1
    /\ attempts' = 0
    /\ tsleeps' = 0
    /\ \E fetched \in BOOLEAN :
          IF ~fetched
          THEN /\ tresult' = "CalledProcessError"
               /\ UNCHANGED <<procs, p, spawned, tpc>>
          ELSE IF tunnel_alive
          THEN /\ tresult' = "already"
               /\ UNCHANGED <<procs, p, spawned, tpc>>
          ELSE /\ p' = spawned + 1
               /\ procs' = procs \cup {spawned + 1}
               /\ spawned' = spawned + 1
               /\ tpc' = "loop"
               /\ tresult' = "none"
    /\ UNCHANGED <<fileVars, ec2Vars, sessionVars, launchVars, pollVars, alive>>

\* lines 196-200: one round of the loop, sleep a second and probe
TunnelPoll ==
    /\ tpc = "loop"
    /\ attempts < TunnelAttempts
    /\ tsleeps' = tsleeps + 1
    /\ attempts' = attempts + 1
    /\ IF tunnel_alive
       THEN /\ tresult' = "created"
            /\ tpc' = "idle"
       ELSE UNCHANGED <<tresult, tpc>>
    /\ UNCHANGED <<fileVars, ec2Vars, sessionVars, launchVars, pollVars, alive, procs,
                   p, spawned, tcalls>>

TunnelGiveUpNoKill ==
    /\ tpc = "loop"
    /\ attempts = TunnelAttempts
    /\ tresult' = "IOError"
    /\ tpc' = "idle"
    /\ UNCHANGED <<fileVars, ec2Vars, sessionVars, launchVars, pollVars, alive, procs,
                   p, spawned, attempts, tsleeps, tcalls>>

\* lines 202-203: the loop ran out, kill the process and raise
TunnelGiveUp ==
    /\ tpc = "loop"
    /\ attempts = TunnelAttempts
    /\ procs' = procs \ {p}
    /\ tresult' = "IOError"
    /\ tpc' = "idle"
    /\ UNCHANGED <<fileVars, ec2Vars, sessionVars, launchVars, pollVars, alive, p,
                   spawned, attempts, tsleeps, tcalls>>

\* the control port starts or stops answering (the forward comes up, the
\* ssh process or the remote kernel goes away)
PortChange ==
    /\ alive' = ~alive
    /\ UNCHANGED <<fileVars, ec2Vars, sessionVars, launchVars, pollVars, procs, p,
                   spawned, tpc, attempts, tsleeps, tcalls, tresult>>

----------------------------------------------------------------------------
(* Initial states and specifications *)

Ec2Init == _ec2 = NoClient /\ constructed = 0 /\ ec2Returned = {}

SessionInit ==
    /\ apiCount = 0 /\ opsDone = 0 /\ haveInstance = FALSE /\ imageRequests = <<>>
    /\ last = [op |-> "", err |-> "", raisedBy |-> "", failedKey |-> "", calls |-> 0,
               keysRead |-> {}]

PollInit ==
    /\ pc = "idle" /\ request_ids = <<>> /\ desc = <<>> /\ checks = 0 /\ sleeps = 0
    /\ clock = 0 /\ lastCheckAt = 0 /\ notFulfilled = 0 /\ errAt = 0 /\ result = <<>>

TunnelInit ==
    /\ alive = FALSE /\ procs = {} /\ p = 0 /\ spawned = 0 /\ tpc = "idle"
    /\ attempts = 0 /\ tsleeps = 0 /\ tcalls = 0 /\ tresult = "none"

NoKw == [image |-> "", script |-> <<>>, kwargs |-> {}]

\* a session of operations with whatever the two files hold
Init ==
    /\ FilesInit /\ Ec2Init /\ SessionInit
    /\ kw = NoKw /\ created = <<>> /\ spotRequest = <<>>
    /\ PollInit /\ TunnelInit

Next ==
    \/ SetName
    \/ Instances
    \/ Images
    \/ CreateInstanceOp
    \/ RequestSpotOp
    \/ Command
    \/ CreateImage

Spec == Init /\ [][Next]_vars

\* one create_instance and one request_spot with the same keyword arguments
InitLaunch ==
    /\ FilesComplete /\ Ec2Init /\ SessionInit
    /\ kw \in KwArgs /\ created = <<>> /\ spotRequest = <<>>
    /\ PollInit /\ TunnelInit

NextLaunch == CreateInstance \/ SpotSubmit \/ SpotCheck \/ SpotSleep

SpecLaunch == InitLaunch /\ [][NextLaunch]_vars

\* calls of tunnel() while the control port comes and goes
InitTunnel ==
    /\ FilesComplete /\ Ec2Init /\ SessionInit
    /\ kw = NoKw /\ created = <<>> /\ spotRequest = <<>>
    /\ PollInit /\ TunnelInit

NextTunnel == TunnelCall \/ TunnelPoll \/ TunnelGiveUp \/ PortChange

SpecTunnel == InitTunnel /\ [][NextTunnel]_vars

----------------------------------------------------------------------------
(* Properties *)

\* C1: request_spot returns an instance handle only when the most recent
\* status check reported 'fulfilled' for every submitted request id; while
\* the most recent check shows a request that is not fulfilled, the loop is
\* still polling and has returned nothing.
C1_ReturnsOnlyWhenAllFulfilled ==
    /\ result # <<>> => pc = "returned"
    /\ pc = "returned" =>
          /\ result # <<>>
          /\ errAt = 0
          /\ Len(desc) = Len(request_ids)
          /\ \A i \in 1..Len(request_ids) :
                /\ desc[i].SpotInstanceRequestId = request_ids[i]
                /\ desc[i].Code = "fulfilled"
    /\ (checks > 0 /\ errAt = 0 /\ \E i \in 1..Len(desc) : desc[i].Code # "fulfilled")
          => (pc \in {"sleep", "check"} /\ result = <<>>)

\* C1 witness: two requests, returned after at least one check that showed
\* them not all fulfilled
C1_Witness ==
    /\ pc = "returned"
    /\ Len(request_ids) = 2
    /\ notFulfilled >= 1

\* C4 (as claimed): for every key the caller overrides that the defaults also
\* carry, the submitted launch specification carries the override's value.
C4_OverridesTakePrecedence ==
    /\ \A i \in 1..Len(created) :
          created[i].err = "" =>
              \A o \in kw.kwargs : created[i].args[1].spec[o[1]] = o[2]
    /\ \A i \in 1..Len(spotRequest) :
          spotRequest[i].err = "" =>
              \A o \in kw.kwargs :
                  spotRequest[i].args[1].LaunchSpecification[o[1]] = o[2]

B64Index(c) == IF c \in 65..90 THEN c - 65
               ELSE IF c \in 97..122 THEN c - 97 + 26
               ELSE IF c \in 48..57 THEN c - 48 + 52
               ELSE IF c = 43 THEN 62 ELSE 63

\* the bytes a base64 text stands for
RECURSIVE b64decode(_)
b64decode(cs) ==
    IF Len(cs) < 4 THEN <<>>
    ELSE LET i1 == B64Index(cs[1])
             i2 == B64Index(cs[2])
             i3 == IF cs[3] = 61 THEN 0 ELSE B64Index(cs[3])
             i4 == IF cs[4] = 61 THEN 0 ELSE B64Index(cs[4])
             b1 == i1 * 4 + (i2 \div 16)
             b2 == (i2 % 16) * 16 + (i3 \div 4)
             b3 == (i3 % 4) * 64 + i4
         IN  (IF cs[3] = 61 THEN <<b1>>
              ELSE IF cs[4] = 61 THEN <<b1, b2>>
              ELSE <<b1, b2, b3>>) \o b64decode(SubSeq(cs, 5, Len(cs)))

\* 'IyEvYmluL2Jhc2gK', the base64 text of '#!/bin/bash\n'
ShebangBase64 == <<73, 121, 69, 118, 89, 109, 108, 117, 76, 50, 74, 104, 99, 50, 103, 75>>

\* C5: create_instance submits the shebang-prefixed script as it is,
\* request_spot submits its base64 text, and for the same keyword arguments
\* the two launch specifications are otherwise the same.
C5_SpotEncodedCreateRaw ==
    /\ \A i \in 1..Len(created) :
          created[i].err = "" =>
              created[i].args[1].spec.UserData = Shebang \o kw.script
    /\ \A i \in 1..Len(spotRequest) :
          spotRequest[i].err = "" =>
              LET data == spotRequest[i].args[1].LaunchSpecification.UserData
              IN  /\ b64decode(data) = Shebang \o kw.script
                  /\ SubSeq(data, 1, Len(ShebangBase64)) = ShebangBase64
                  /\ Len(data) = 4 * ((Len(Shebang) + Len(kw.script) + 2) \div 3)
                  /\ \A j \in 1..Len(data) :
                        data[j] \in (65..90) \cup (97..122) \cup (48..57) \cup {43, 47, 61}
    /\ \A i \in 1..Len(created), j \in 1..Len(spotRequest) :
          /\ created[i].err = spotRequest[j].err
          /\ created[i].err = "" =>
                LET c == created[i].args[1].spec
                    r == spotRequest[j].args[1].LaunchSpecification
                IN  [r EXCEPT !.UserData = c.UserData] = c

\* C5 witness: both launches submitted with a one-byte script (a padded
\* base64 text) and a named image
C5_Witness ==
    /\ created # <<>> /\ spotRequest # <<>>
    /\ created[1].err = "" /\ spotRequest[1].err = ""
    /\ Len(kw.script) = 1
    /\ kw.image = "python_ec2"

\* C6: with no errors, request_spot returns at the first check that reports
\* all fulfilled, the k-th: it has made k checks, the i-th at time 5(i-1),
\* has slept k-1 times, not after the last check, and returns the handle of
\* the first request's instance.
C6_ChecksAndSleeps ==
    /\ checks > 0 => lastCheckAt = 5 * (checks - 1)
    /\ pc = "returned" =>
          /\ checks = notFulfilled + 1
          /\ sleeps = checks - 1
          /\ clock = 5 * (checks - 1)
          /\ result = <<[id |-> <<"i", request_ids[1]>>]>>

\* C6 witness: one request, fulfilled at the third check
C6_Witness ==
    /\ pc = "returned"
    /\ checks = 3
    /\ notFulfilled = 2
    /\ Len(request_ids) = 1

\* C10: once a status check has raised a ClientError, request_spot has
\* raised: no check and no sleep follows the failing check and no handle is
\* returned.
C10_ErrorRaisedAtOnce ==
    errAt # 0 =>
        /\ pc = "raised"
        /\ checks = errAt
        /\ sleeps = errAt - 1
        /\ result = <<>>

\* C10 witness: the third check raises after two that showed the request
\* pending
C10_Witness ==
    /\ errAt = 3
    /\ notFulfilled = 2
    /\ pc = "raised"

\* C2: tunnel() raises only after 20 probes, each after a one-second sleep,
\* all of which found the port closed, never probes a 21st time, and has
\* killed the process it started when it raises.
C2_FailsAfterTwentyAttempts ==
    /\ attempts <= 20
    /\ tpc = "loop" => (p \in procs /\ tsleeps = attempts)
    /\ tresult = "IOError" =>
          /\ attempts = 20
          /\ tsleeps = 20
          /\ p \notin procs
          /\ tpc = "idle"
    /\ tresult = "created" => (attempts \in 1..20 /\ p \in procs)

\* C2 witness: a call that found the port closed 20 times and raised
C2_Witness ==
    /\ tresult = "IOError"
    /\ attempts = 20
    /\ spawned = 1

\* C3: a call of tunnel() that finds the control port answering starts no
\* process: it returns at the short-circuit (or has failed before it, fetching
\* the kernel descriptor), however many calls came before.
C3_ShortCircuit ==
    [][(alive /\ tcalls' = tcalls + 1) =>
          /\ procs' = procs
          /\ spawned' = spawned
          /\ tresult' \in {"already", "CalledProcessError"}
          /\ tpc' = "idle"]_vars

\* C3 witness: three calls, the first started the tunnel, the later ones
\* found it and there is still one process
C3_Witness ==
    /\ tcalls = 3
    /\ tresult = "already"
    /\ spawned = 1
    /\ procs = {1}
    /\ alive

\* C7 (as claimed): every image request asks the provider not to reboot.
C7_ImageRequestsAskNoReboot ==
    \A i \in 1..Len(imageRequests) : imageRequests[i].NoReboot = TRUE

C9_SingletonClient ==
    /\ constructed <= 1
    /\ constructed = 0 => (_ec2 = NoClient /\ ec2Returned = {})
    /\ constructed >= 1 => (_ec2 = 1 /\ ec2Returned = {1})

\* C9 witness: three operations that all went through ec2(), one client
C9_Witness ==
    /\ opsDone = 3
    /\ last.op = "images"
    /\ last.err = ""
    /\ apiCount >= 3
    /\ constructed = 1

============================================================================
